---- MODULE Spec2Model ----
(***************************************************************************)
(* Model of politics_watcher.py: the store operations (already_seen,       *)
(* record_hit), the fingerprint fp, the phrase matcher PHRASE_RE, and the  *)
(* run_once pipeline (targeted pass, backstop pass, emit, JSON dump).      *)
(*                                                                         *)
(* A Python str is modelled as a sequence of one-character strings; the    *)
(* two non-ASCII characters of the pattern are the tokens "RSQUO" (U+2019) *)
(* and "EMDASH" (U+2014).                                                  *)
(***************************************************************************)
EXTENDS Integers, Sequences, FiniteSets, TLC

(***************************************************************************)
(* Bounds of the model.                                                    *)
(***************************************************************************)
MaxRuns == 2
MaxItems == 2
MaxBudget == 2
MaxTime == 2

(***************************************************************************)
(* Characters and strings.                                                 *)
(***************************************************************************)
UpperLetters == <<"A","B","C","D","E","F","G","H","I","J","K","L","M",
                  "N","O","P","Q","R","S","T","U","V","W","X","Y","Z">>

LowerLetters == <<"a","b","c","d","e","f","g","h","i","j","k","l","m",
                  "n","o","p","q","r","s","t","u","v","w","x","y","z">>

Digits == {"0","1","2","3","4","5","6","7","8","9"}

Range(s) == {s[i] : i \in 1..Len(s)}

\* str.lower() and re.IGNORECASE on the letters of the model's alphabet
LowerChar(c) ==
    IF \E i \in 1..26 : UpperLetters[i] = c
    THEN LowerLetters[CHOOSE i \in 1..26 : UpperLetters[i] = c]
    ELSE c

Lower(s) == [i \in 1..Len(s) |-> LowerChar(s[i])]

\* the class \w, which decides \b
IsWordChar(c) == c \in Range(UpperLetters) \cup Range(LowerLetters) \cup Digits \cup {"_"}

\* the class \s (also what str.strip() removes)
Whitespace == {" ", "\t", "\n", "\r"}

\* the class [\s,;:\-—]
PunctClass == Whitespace \cup {",", ";", ":", "-", "EMDASH"}

\* sub in s (Python's substring test)
Contains(s, sub) ==
    \E i \in 0..(Len(s) - Len(sub)) : SubSeq(s, i + 1, i + Len(sub)) = sub

\* str.strip()
Strip(s) ==
    LET keep == {i \in 1..Len(s) : s[i] \notin Whitespace}
    IN  IF keep = {} THEN <<>>
        ELSE SubSeq(s, CHOOSE i \in keep : \A j \in keep : i <= j,
                       CHOOSE i \in keep : \A j \in keep : i >= j)

(***************************************************************************)
(* fp: every part, followed by "|", is fed to the digest in order.  The    *)
(* digest itself is taken to be collision-free, so the fingerprint is the  *)
(* byte string that is hashed.                                             *)
(***************************************************************************)
RECURSIVE fp(_)
fp(parts) ==
    IF parts = <<>> THEN <<>>
    ELSE Head(parts) \o <<"|">> \o fp(Tail(parts))

(***************************************************************************)
(* PHRASE_RE.search.  Positions are offsets 0..Len(t), as in match.span(). *)
(***************************************************************************)
\* mutant: no \b in the pattern
WordBoundary_None(t, i) == TRUE

\* \b at offset i
WordBoundary(t, i) ==
    (i >= 1 /\ IsWordChar(t[i])) # (i < Len(t) /\ IsWordChar(t[i + 1]))

\* end of the longest run of characters of class C starting at offset i
RunEnd(t, i, C) ==
    CHOOSE j \in i..Len(t) :
        /\ \A k \in (i + 1)..j : t[k] \in C
        /\ j = Len(t) \/ t[j + 1] \notin C

\* offsets reachable from the offsets P by C* and by C+
StarFrom(t, P, C) == UNION {i..RunEnd(t, i, C) : i \in P}

PlusFrom(t, P, C) == UNION {(i + 1)..RunEnd(t, i, C) : i \in P}

\* offsets reachable from the offsets P by the literal w, ignoring case
LitFrom(t, P, w) ==
    {i + Len(w) : i \in {p \in P : /\ p + Len(w) <= Len(t)
                                   /\ Lower(SubSeq(t, p + 1, p + Len(w))) = w}}

\* the offsets at which a match starting at offset a can end
MatchEnds(t, a) ==
    IF ~WordBoundary(t, a) THEN {}
    ELSE LET subj == LitFrom(t, {a}, <<"i","'","m">>)
                     \cup LitFrom(t, {a}, <<"i","RSQUO","m">>)
                     \cup LitFrom(t, {a}, <<"i","m">>)
                     \cup LitFrom(t, PlusFrom(t, LitFrom(t, {a}, <<"i">>), Whitespace),
                                  <<"a","m">>)
             neg  == LitFrom(t, PlusFrom(t, subj, Whitespace), <<"n","o","t">>)
             rac  == LitFrom(t, PlusFrom(t, neg, Whitespace),
                             <<"r","a","c","i","s","t">>)
             gap  == StarFrom(t, StarFrom(t, rac, Whitespace), PunctClass)
             but  == LitFrom(t, gap, <<"b","u","t">>)
         IN  {e \in but : WordBoundary(t, e)}

NoMatch == <<-1, -1>>

\* the span of the first match, or NoMatch
PhraseSearch(t) ==
    LET starts == {a \in 0..Len(t) : MatchEnds(t, a) # {}}
    IN  IF starts = {} THEN NoMatch
        ELSE LET a == CHOOSE x \in starts : \A y \in starts : x <= y
             IN  <<a, CHOOSE e \in MatchEnds(t, a) : \A f \in MatchEnds(t, a) : e >= f>>

Radius == 140

Max(a, b) == IF a >= b THEN a ELSE b

Min(a, b) == IF a <= b THEN a ELSE b

context_snippet(text, span) ==
    Strip(SubSeq(text, Max(0, span[1] - Radius) + 1, Min(Len(text), span[2] + Radius)))

(***************************************************************************)
(* Dedup store: the tables seen (fp -> ts) and hits (id -> row), as        *)
(* functions on the set of stored primary keys.                            *)
(***************************************************************************)
EmptyTable == <<>>

\* mutant: the row found by the SELECT is ignored
AlreadySeenRet_Never(tbl, key) == FALSE

\* already_seen: the SELECT, bool(row)
AlreadySeenRet(tbl, key) == key \in DOMAIN tbl

\* mutant: the INSERT forgotten
AlreadySeenTable_NoInsert(tbl, key, t) == tbl

\* mutant: INSERT OR REPLACE without the SELECT guard
AlreadySeenTable_Replace(tbl, key, t) ==
    [k \in DOMAIN tbl \cup {key} |-> IF k = key THEN t ELSE tbl[k]]

\* already_seen: the table after the call (INSERT only if no row was found)
AlreadySeenTable(tbl, key, t) ==
    IF key \in DOMAIN tbl THEN tbl
    ELSE [k \in DOMAIN tbl \cup {key} |-> IF k = key THEN t ELSE tbl[k]]

\* mutant: INSERT OR REPLACE
RecordHitTable_Replace(tbl, hit) ==
    [k \in DOMAIN tbl \cup {hit.id} |-> IF k = hit.id THEN hit ELSE tbl[k]]

\* record_hit: INSERT OR IGNORE keyed by id
RecordHitTable(tbl, hit) ==
    IF hit.id \in DOMAIN tbl THEN tbl
    ELSE [k \in DOMAIN tbl \cup {hit.id} |-> IF k = hit.id THEN hit ELSE tbl[k]]

(***************************************************************************)
(* Fixtures: subjects, feed items and article texts.                       *)
(***************************************************************************)
P1 == <<"A","l">>

P2 == <<"B","o">>

PeopleLists == {<<P1, P2>>}

U1 == <<"u">>

U2 == <<"v">>

Urls == {U1, U2}

\* "al BO" names both subjects, "AL" only the first, "x" none
TBoth == <<"a","l"," ","B","O">>

TOne == <<"A","L">>

TNone == <<"x">>

\* what parse_rss yields for an entry, before the feed label is attached
ItemKinds ==
    { [title |-> TBoth, url |-> U1, ts |-> 1],
      [title |-> TOne,  url |-> U1, ts |-> 2],
      [title |-> TNone, url |-> U2, ts |-> 1] }

TextMatch == <<"I","'","m"," ","n","o","t"," ","r","a","c","i","s","t",","," ","b","u","t"," ">>

TextNoMatch == <<"I","'","m"," ","n","o","t"," ","r","a","c","i","s","t">>

PageTexts == {TextMatch, TextNoMatch}

\* the feed URL of a subject's search (google_news_rss) and of the general feed
SearchFeedOf(person) == <<"q","=">> \o person

GeneralFeed == <<"g">>

\* parse_rss attaches the source to every item
WithFeed(kind, source) ==
    [title |-> kind.title, url |-> kind.url, ts |-> kind.ts, feed |-> source]

TestId == <<"t","e","s","t">>

SinkOutcomes == {"sent", "skipped", "raised"}

VARIABLES
    people,         \* load_names()
    searchFeed,     \* subject -> items of its search feed (fixture)
    generalFeed,    \* general_items (fixture)
    pageText,       \* url -> text fetch_text extracts when the fetch succeeds
    MAX_LINKS,      \* the fetch budget of the environment
    seen, hits,     \* the two tables of pol_watch.db
    now,            \* int(time.time())
    run,            \* number of runs started
    forceTest,      \* FORCE_TEST=1 in this run
    pc,             \* position in run_once
    pi, ii,         \* targeted pass: index of the subject, of the item
    gi, mi,         \* backstop pass: index of the item, of the mention
    ei,             \* emit loop: index into new_hits
    fetched_links, new_hits,
    snip,           \* context snippet of the page just matched
    artifacts,      \* runs that wrote out/hits_<stamp>.json
    fetchLog,       \* history: every fetch_text call
    sinkLog,        \* history: the hit ids handed to send_email in this run
    sinkFail,       \* history: the first send_email of this run that did not send
    runLog,         \* history: summary of every finished run
    seen0, hits0,   \* history: the tables when the run started
    lastCall,       \* history: the last store call made by StoreSpec
    alerted,        \* history: every id ever handed to send_email
    storeErr        \* history: a store operation of this run raised

fixtures == <<people, searchFeed, generalFeed, pageText, MAX_LINKS>>

store == <<seen, hits>>

loopvars == <<pi, ii, gi, mi, ei>>

history == <<fetchLog, sinkLog, sinkFail, runLog, seen0, hits0, lastCall, alerted,
            storeErr>>

vars == <<people, searchFeed, generalFeed, pageText, MAX_LINKS, seen, hits, now, run,
          forceTest, pc, pi, ii, gi, mi, ei, fetched_links, new_hits, snip, artifacts,
          fetchLog, sinkLog, sinkFail, runLog, seen0, hits0, lastCall, alerted,
          storeErr>>

NoCall == [op |-> "none"]

NoFail == [at |-> 0, out |-> "sent"]

\* the record of the first call that raised or was skipped
NoteFail(old, at, out) ==
    IF old.at = 0 /\ out # "sent" THEN [at |-> at, out |-> out] ELSE old

InitFor(lists, budgets) ==
    /\ people \in lists
    /\ \E n1 \in 0..MaxItems :
         \E n2 \in 0..(MaxItems - n1) :
           \E n3 \in 0..(MaxItems - n1 - n2) :
             \E f1 \in [1..n1 -> ItemKinds], f2 \in [1..n2 -> ItemKinds],
                g \in [1..n3 -> ItemKinds] :
               /\ searchFeed = [p \in {P1, P2} |->
                                  [i \in 1..(IF p = P1 THEN n1 ELSE n2) |->
                                     WithFeed((IF p = P1 THEN f1 ELSE f2)[i],
                                              SearchFeedOf(p))]]
               /\ generalFeed = [i \in 1..n3 |-> WithFeed(g[i], GeneralFeed)]
    /\ pageText \in [Urls -> PageTexts]
    \* a page no feed links to is never fetched: its text is left at one value
    /\ \A u \in Urls :
         (\A i \in 1..Len(generalFeed) : generalFeed[i].url # u)
         /\ (\A p \in DOMAIN searchFeed : \A i \in 1..Len(searchFeed[p]) :
                searchFeed[p][i].url # u)
         => pageText[u] = TextNoMatch
    /\ MAX_LINKS \in budgets
    /\ seen = EmptyTable
    /\ hits = EmptyTable
    /\ now = 0
    /\ run = 0
    /\ forceTest = FALSE
    /\ pc = "idle"
    /\ pi = 1 /\ ii = 1 /\ gi = 1 /\ mi = 1 /\ ei = 1
    /\ fetched_links = 0
    /\ new_hits = <<>>
    /\ snip = <<>>
    /\ artifacts = {}
    /\ fetchLog = <<>>
    /\ sinkLog = <<>>
    /\ sinkFail = NoFail
    /\ runLog = <<>>
    /\ seen0 = EmptyTable
    /\ hits0 = EmptyTable
    /\ lastCall = NoCall
    /\ alerted = {}
    /\ storeErr = FALSE

Init == InitFor(PeopleLists, -1..MaxBudget)

(***************************************************************************)
(* run_once.                                                               *)
(***************************************************************************)
\* ensure_db (CREATE TABLE IF NOT EXISTS leaves existing tables alone), the
\* FORCE_TEST test, and the initialisation of the run's locals
StartRun ==
    /\ pc \in {"idle", "done", "crashed", "aborted", "killed"}
    /\ run < MaxRuns
    \* a test-alert run leaves nothing behind that a later run reads: the runs
    \* after one are those of the behaviour without it, and are not explored again
    /\ ~forceTest
    \* a behaviour is followed up to the first run that a store failure aborts
    /\ ~storeErr
    /\ run' = run + 1
    /\ now' = now + 1
    /\ \E ft \in BOOLEAN :
         /\ forceTest' = ft
         /\ pc' = IF ft THEN "test" ELSE "targeted"
    /\ pi' = 1 /\ ii' = 1 /\ gi' = 1 /\ mi' = 1 /\ ei' = 1
    /\ fetched_links' = 0
    /\ new_hits' = <<>>
    /\ snip' = <<>>
    /\ seen0' = seen
    /\ hits0' = hits
    /\ sinkLog' = <<>>
    /\ sinkFail' = NoFail
    /\ UNCHANGED <<fixtures, store, artifacts, fetchLog, runLog, lastCall, alerted,
                   storeErr>>

\* mutant: the return after the test alert is missing
TestAlert_FallThrough ==
    /\ pc = "test"
    /\ \E out \in SinkOutcomes :
         /\ sinkLog' = Append(sinkLog, TestId)
         /\ alerted' = alerted \cup {TestId}
         /\ sinkFail' = NoteFail(sinkFail, 1, out)
         /\ pc' = IF out = "raised" THEN "crashed" ELSE "targeted"
    /\ runLog' = Append(runLog, [force |-> TRUE, fetched |-> 0, nhits |-> 0])
    /\ UNCHANGED <<fixtures, store, now, run, forceTest, loopvars, fetched_links,
                   new_hits, snip, artifacts, fetchLog, seen0, hits0, lastCall,
                   storeErr>>

\* the FORCE_TEST branch: one send_email, outside any try
TestAlert ==
    /\ pc = "test"
    /\ \E out \in SinkOutcomes :
         /\ sinkLog' = Append(sinkLog, TestId)
         /\ alerted' = alerted \cup {TestId}
         /\ sinkFail' = NoteFail(sinkFail, 1, out)
         \* an exception of send_email is not caught here: the run dies
         /\ pc' = IF out = "raised" THEN "crashed" ELSE "done"
    /\ runLog' = Append(runLog, [force |-> TRUE, fetched |-> 0, nhits |-> 0])
    /\ UNCHANGED <<fixtures, store, now, run, forceTest, loopvars, fetched_links,
                   new_hits, snip, artifacts, fetchLog, seen0, hits0, lastCall,
                   storeErr>>

\* mutant: the comparison off by one
BudgetReached_OffByOne(n, budget) == n > budget

\* fetched_links >= MAX_LINKS
BudgetReached(n, budget) == n >= budget

\* fetch_text: the extracted page, or "" when the fetch fails
FetchText(url) == {pageText[url], <<>>}

FetchResult(page) ==
    IF page = <<>> THEN "fail"
    ELSE IF PhraseSearch(page) = NoMatch THEN "nomatch" ELSE "match"

\* mutant: the hit id is built from the title in place of the url
MakeHit_IdByTitle(person, it, snippet) ==
    [id |-> fp(<<<<"H">>, person, it.title>>), ts |-> it.ts, person |-> person,
     url |-> it.url, title |-> it.title, feed |-> it.feed, snippet |-> snippet]

MakeHit(person, it, snippet) ==
    [id |-> fp(<<<<"H">>, person, it.url>>), ts |-> it.ts, person |-> person,
     url |-> it.url, title |-> it.title, feed |-> it.feed, snippet |-> snippet]

\* mutant: the seen key of the targeted pass leaves the subject out
TargetedKey_NoPerson(person, it) == fp(<<it.url, it.title>>)

\* key = fp(person, it["url"], it["title"])
TargetedKey(person, it) == fp(<<person, it.url, it.title>>)

\* key = fp("G", it["url"], it["title"])
BackstopKey(it) == fp(<<<<"G">>, it.url, it.title>>)

\* mutant: only a fetch whose page matched is counted
CountFetch_OnMatch(n, page) == IF PhraseSearch(page) = NoMatch THEN n ELSE n + 1

\* fetched_links += 1, whatever the fetch returned
CountFetch(n, page) == n + 1

\* mutant: the subjects are taken from the end of the list
curPerson_Reversed == people[Len(people) + 1 - pi]

curPerson == people[pi]

curItems == searchFeed[curPerson]

\* Pass 1, one item: the budget test, the seen key and already_seen
TargetedItem ==
    /\ pc = "targeted"
    /\ pi <= Len(people)
    /\ ii <= Len(curItems)
    /\ ~BudgetReached(fetched_links, MAX_LINKS)
    /\ LET it  == curItems[ii]
           key == TargetedKey(curPerson, it)
       IN  /\ seen' = AlreadySeenTable(seen, key, now)
           /\ IF AlreadySeenRet(seen, key)
              THEN pc' = "targeted" /\ ii' = ii + 1
              ELSE pc' = "t_fetch" /\ ii' = ii
    /\ UNCHANGED <<fixtures, hits, now, run, forceTest, pi, gi, mi, ei, fetched_links,
                   new_hits, snip, artifacts, history>>

\* Pass 1: fetch_text, the count, PHRASE_RE.search and the snippet
TargetedFetch ==
    /\ pc = "t_fetch"
    /\ LET it == curItems[ii]
       IN  \E page \in FetchText(it.url) :
             /\ fetchLog' = Append(fetchLog,
                    [run |-> run, pass |-> "T",
                     key |-> TargetedKey(curPerson, it),
                     url |-> it.url, title |-> it.title, res |-> FetchResult(page)])
             /\ IF PhraseSearch(page) = NoMatch
                THEN pc' = "targeted" /\ ii' = ii + 1 /\ snip' = <<>>
                ELSE /\ pc' = "t_record" /\ ii' = ii
                     /\ snip' = context_snippet(page, PhraseSearch(page))
             /\ fetched_links' = CountFetch(fetched_links, page)
    /\ UNCHANGED <<fixtures, store, now, run, forceTest, pi, gi, mi, ei, new_hits,
                   artifacts, sinkLog, sinkFail, runLog, seen0, hits0, lastCall,
                   alerted, storeErr>>

\* Pass 1: record_hit and new_hits.append
TargetedRecord ==
    /\ pc = "t_record"
    /\ LET hit == MakeHit(curPerson, curItems[ii], snip)
       IN  /\ hits' = RecordHitTable(hits, hit)
           /\ new_hits' = Append(new_hits, hit)
    /\ pc' = "targeted"
    /\ ii' = ii + 1
    /\ snip' = <<>>
    /\ UNCHANGED <<fixtures, seen, now, run, forceTest, pi, gi, mi, ei, fetched_links,
                   artifacts, history>>

\* Pass 1: the items of a subject are exhausted below the budget
TargetedNextPerson ==
    /\ pc = "targeted"
    /\ pi <= Len(people)
    /\ ii > Len(curItems)
    /\ ~BudgetReached(fetched_links, MAX_LINKS)
    /\ pi' = pi + 1
    /\ ii' = 1
    /\ UNCHANGED <<fixtures, store, now, run, forceTest, pc, gi, mi, ei, fetched_links,
                   new_hits, snip, artifacts, history>>

\* Pass 1 ends (subjects exhausted, or either break on the budget), then the
\* test in front of Pass 2
TargetedEnd ==
    /\ pc = "targeted"
    /\ pi > Len(people) \/ BudgetReached(fetched_links, MAX_LINKS)
    /\ pc' = IF BudgetReached(fetched_links, MAX_LINKS) THEN "emit" ELSE "backstop"
    /\ UNCHANGED <<fixtures, store, now, run, forceTest, loopvars, fetched_links,
                   new_hits, snip, artifacts, history>>

\* mutant: only the first subject named in the title
Mentions_First(ppl, title) ==
    LET all == SelectSeq(ppl, LAMBDA p : Contains(Lower(title), Lower(p)))
    IN  IF all = <<>> THEN <<>> ELSE <<all[1]>>

\* mentions = [p for p in people if p.lower() in lower_title]
Mentions(ppl, title) ==
    SelectSeq(ppl, LAMBDA p : Contains(Lower(title), Lower(p)))

\* Pass 2, one item: the budget test, the mentions, the seen key and already_seen
BackstopItem ==
    /\ pc = "backstop"
    /\ gi <= Len(generalFeed)
    /\ ~BudgetReached(fetched_links, MAX_LINKS)
    /\ LET it  == generalFeed[gi]
           key == BackstopKey(it)
       IN  IF Mentions(people, it.title) = <<>>
           THEN pc' = "backstop" /\ gi' = gi + 1 /\ seen' = seen
           ELSE /\ seen' = AlreadySeenTable(seen, key, now)
                /\ IF AlreadySeenRet(seen, key)
                   THEN pc' = "backstop" /\ gi' = gi + 1
                   ELSE pc' = "b_fetch" /\ gi' = gi
    /\ UNCHANGED <<fixtures, hits, now, run, forceTest, pi, ii, mi, ei, fetched_links,
                   new_hits, snip, artifacts, history>>

\* Pass 2: fetch_text, the count, PHRASE_RE.search and the snippet
BackstopFetch ==
    /\ pc = "b_fetch"
    /\ LET it == generalFeed[gi]
       IN  \E page \in FetchText(it.url) :
             /\ fetchLog' = Append(fetchLog,
                    [run |-> run, pass |-> "G",
                     key |-> BackstopKey(it),
                     url |-> it.url, title |-> it.title, res |-> FetchResult(page)])
             /\ IF PhraseSearch(page) = NoMatch
                THEN pc' = "backstop" /\ gi' = gi + 1 /\ snip' = <<>>
                ELSE /\ pc' = "b_record" /\ gi' = gi
                     /\ snip' = context_snippet(page, PhraseSearch(page))
             /\ fetched_links' = CountFetch(fetched_links, page)
    /\ mi' = 1
    /\ UNCHANGED <<fixtures, store, now, run, forceTest, pi, ii, ei, new_hits,
                   artifacts, sinkLog, sinkFail, runLog, seen0, hits0, lastCall,
                   alerted, storeErr>>

\* Pass 2: record_hit and new_hits.append for one mentioned subject
BackstopRecord ==
    /\ pc = "b_record"
    /\ LET it       == generalFeed[gi]
           mentions == Mentions(people, it.title)
           hit      == MakeHit(mentions[mi], it, snip)
       IN  /\ hits' = RecordHitTable(hits, hit)
           /\ new_hits' = Append(new_hits, hit)
           /\ IF mi < Len(mentions)
              THEN mi' = mi + 1 /\ gi' = gi /\ pc' = "b_record" /\ snip' = snip
              ELSE mi' = 1 /\ gi' = gi + 1 /\ pc' = "backstop" /\ snip' = <<>>
    /\ UNCHANGED <<fixtures, seen, now, run, forceTest, pi, ii, ei, fetched_links,
                   artifacts, history>>

\* Pass 2 ends: items exhausted, or the break on the budget
BackstopEnd ==
    /\ pc = "backstop"
    /\ gi > Len(generalFeed) \/ BudgetReached(fetched_links, MAX_LINKS)
    /\ pc' = "emit"
    /\ UNCHANGED <<fixtures, store, now, run, forceTest, loopvars, fetched_links,
                   new_hits, snip, artifacts, history>>

\* mutant: an exception of send_email leaves the loop
EmitAdvance_Abort(i, out, n) == IF out = "raised" THEN n + 1 ELSE i + 1

\* the index of the next hit to mail: the try/except keeps the loop going
EmitAdvance(i, out, n) == i + 1

\* Email per hit: one send_email inside try/except
EmitStep ==
    /\ pc = "emit"
    /\ ei <= Len(new_hits)
    /\ \E out \in SinkOutcomes :
         /\ sinkLog' = Append(sinkLog, new_hits[ei].id)
         /\ alerted' = alerted \cup {new_hits[ei].id}
         /\ sinkFail' = NoteFail(sinkFail, ei, out)
         /\ ei' = EmitAdvance(ei, out, Len(new_hits))
    /\ UNCHANGED <<fixtures, store, now, run, forceTest, pc, pi, ii, gi, mi,
                   fetched_links, new_hits, snip, artifacts, fetchLog, runLog, seen0,
                   hits0, lastCall, storeErr>>

EmitEnd ==
    /\ pc = "emit"
    /\ ei > Len(new_hits)
    /\ pc' = "dump"
    /\ UNCHANGED <<fixtures, store, now, run, forceTest, loopvars, fetched_links,
                   new_hits, snip, artifacts, history>>

\* mutant: the file is written on every run
DumpNeeded_Always(nh) == TRUE

\* if new_hits:
DumpNeeded(nh) == nh # <<>>

\* the optional JSON file and the final print
DumpStep ==
    /\ pc = "dump"
    /\ artifacts' = IF DumpNeeded(new_hits) THEN artifacts \cup {run} ELSE artifacts
    /\ runLog' = Append(runLog, [force |-> FALSE, fetched |-> fetched_links,
                                 nhits |-> Len(new_hits)])
    /\ pc' = "done"
    /\ UNCHANGED <<fixtures, store, now, run, forceTest, loopvars, fetched_links,
                   new_hits, snip, fetchLog, sinkLog, sinkFail, seen0, hits0, lastCall,
                   alerted, storeErr>>

Next ==
    \/ StartRun
    \/ TestAlert
    \/ TargetedItem
    \/ TargetedFetch
    \/ TargetedRecord
    \/ TargetedNextPerson
    \/ TargetedEnd
    \/ BackstopItem
    \/ BackstopFetch
    \/ BackstopRecord
    \/ BackstopEnd
    \/ EmitStep
    \/ EmitEnd
    \/ DumpStep

Spec == Init /\ [][Next]_vars

(***************************************************************************)
(* The store operations on their own: already_seen and record_hit called   *)
(* with any key and any hit, in any order, while the clock advances.       *)
(***************************************************************************)
StoreKeys ==
    { fp(<<P1, U1, TOne>>), fp(<<P2, U1, TOne>>), fp(<<<<"G">>, U1, TOne>>) }

\* hits of two ids, each in variants that differ in title, ts, feed and snippet
StoreHits ==
    { MakeHit(p, WithFeed(k, f[1]), f[2]) :
        p \in {P1, P2},
        k \in {x \in ItemKinds : x.url = U1},
        f \in { <<SearchFeedOf(P1), TextMatch>>, <<GeneralFeed, TextNoMatch>> } }

InitStore ==
    /\ people = <<P1, P2>>
    /\ searchFeed = [p \in {P1, P2} |-> <<>>]
    /\ generalFeed = <<>>
    /\ pageText = [u \in Urls |-> TextNoMatch]
    /\ MAX_LINKS = 0
    /\ seen = EmptyTable
    /\ hits = EmptyTable
    /\ now = 0
    /\ run = 0
    /\ forceTest = FALSE
    /\ pc = "store"
    /\ pi = 1 /\ ii = 1 /\ gi = 1 /\ mi = 1 /\ ei = 1
    /\ fetched_links = 0
    /\ new_hits = <<>>
    /\ snip = <<>>
    /\ artifacts = {}
    /\ fetchLog = <<>>
    /\ sinkLog = <<>>
    /\ sinkFail = NoFail
    /\ runLog = <<>>
    /\ seen0 = EmptyTable
    /\ hits0 = EmptyTable
    /\ lastCall = NoCall
    /\ alerted = {}
    /\ storeErr = FALSE

StoreAlreadySeen ==
    /\ pc = "store"
    /\ \E key \in StoreKeys :
         /\ seen' = AlreadySeenTable(seen, key, now)
         /\ lastCall' = [op |-> "already_seen", key |-> key,
                         ret |-> AlreadySeenRet(seen, key)]
    /\ UNCHANGED <<fixtures, hits, now, run, forceTest, pc, loopvars, fetched_links,
                   new_hits, snip, artifacts, fetchLog, sinkLog, sinkFail, runLog,
                   seen0, hits0, alerted, storeErr>>

StoreRecordHit ==
    /\ pc = "store"
    /\ \E hit \in StoreHits :
         /\ hits' = RecordHitTable(hits, hit)
         /\ lastCall' = [op |-> "record_hit", hit |-> hit]
    /\ UNCHANGED <<fixtures, seen, now, run, forceTest, pc, loopvars, fetched_links,
                   new_hits, snip, artifacts, fetchLog, sinkLog, sinkFail, runLog,
                   seen0, hits0, alerted, storeErr>>

\* time.time() moves on between calls
StoreTick ==
    /\ pc = "store"
    /\ now < MaxTime
    /\ now' = now + 1
    /\ UNCHANGED <<fixtures, store, run, forceTest, pc, loopvars, fetched_links,
                   new_hits, snip, artifacts, history>>

NextStore ==
    \/ StoreAlreadySeen
    \/ StoreRecordHit
    \/ StoreTick

StoreSpec == InitStore /\ [][NextStore]_vars

(***************************************************************************)
(* Properties of the store operations.                                     *)
(***************************************************************************)
\* a step that is a call of already_seen / of record_hit
IsAlreadySeenStep == lastCall'.op = "already_seen" /\ (lastCall' # lastCall \/ seen' # seen)

IsRecordHitStep == lastCall'.op = "record_hit" /\ (lastCall' # lastCall \/ hits' # hits)

\* C9: already_seen(key) returns true iff key was in the seen table before the
\* call; afterwards key is in the table; a key that was present keeps its
\* first-seen timestamp; no other seen row and no hit row changes.  Hence no
\* step removes a seen row or rewrites one: a key is inserted at most once.
C9_CheckAndMark ==
    [][ /\ IsAlreadySeenStep =>
             LET key == lastCall'.key
             IN  /\ lastCall'.ret = (key \in DOMAIN seen)
                 /\ DOMAIN seen' = DOMAIN seen \cup {key}
                 /\ \A k \in DOMAIN seen : seen'[k] = seen[k]
                 /\ key \notin DOMAIN seen => seen'[key] = now
                 /\ hits' = hits
        /\ DOMAIN seen \subseteq DOMAIN seen'
        /\ \A k \in DOMAIN seen : seen'[k] = seen[k] ]_vars

\* C9 witness: a call on a key inserted at an earlier time returned true and
\* the stored timestamp is still the earlier one
C9_Witness ==
    /\ lastCall.op = "already_seen"
    /\ lastCall.ret = TRUE
    /\ lastCall.key \in DOMAIN seen
    /\ seen[lastCall.key] < now
    /\ Cardinality(DOMAIN seen) >= 2

\* C10: record_hit of an absent id adds exactly that row; record_hit of a
\* present id changes nothing, whatever the other columns of the new hit; the
\* row stored for an id never changes; the seen table is not touched.
C10_InsertHitIfAbsent ==
    [][ /\ IsRecordHitStep =>
             LET hit == lastCall'.hit
             IN  /\ hit.id \in DOMAIN hits => hits' = hits
                 /\ hit.id \notin DOMAIN hits =>
                      /\ DOMAIN hits' = DOMAIN hits \cup {hit.id}
                      /\ hits'[hit.id] = hit
                 /\ seen' = seen
        /\ \A id \in DOMAIN hits : id \in DOMAIN hits' /\ hits'[id] = hits[id] ]_vars

\* C10 witness: the last record_hit carried a hit whose id was stored before
\* with another title, timestamp, feed and snippet, and the first row is kept
C10_Witness ==
    /\ lastCall.op = "record_hit"
    /\ lastCall.hit.id \in DOMAIN hits
    /\ LET old == hits[lastCall.hit.id]
       IN  /\ old.title # lastCall.hit.title
           /\ old.ts # lastCall.hit.ts
           /\ old.feed # lastCall.hit.feed
           /\ old.snippet # lastCall.hit.snippet

(***************************************************************************)
(* Properties of run_once.                                                 *)
(***************************************************************************)
\* the fetch_text calls of the current run, in order
ThisRunFetches == SelectSeq(fetchLog, LAMBDA e : e.run = run)

FetchedKeys(log) == {log[i].key : i \in 1..Len(log)}

\* the run is a pipeline run (FORCE_TEST unset) that has started
InPipelineRun == run >= 1 /\ ~forceTest /\ pc # "store"

\* the seen keys of the candidates of a run: every item of every search feed,
\* and every general item whose lower-cased title contains a lower-cased name
CandidateKeys ==
    {fp(<<p, searchFeed[p][i].url, searchFeed[p][i].title>>) :
        <<p, i>> \in {x \in Range(people) \X (1..MaxItems) : x[2] <= Len(searchFeed[x[1]])}}
    \cup
    {fp(<<<<"G">>, generalFeed[i].url, generalFeed[i].title>>) :
        i \in {j \in 1..Len(generalFeed) :
                 \E p \in Range(people) :
                    Contains(Lower(generalFeed[j].title), Lower(p))}}

\* every fetch_text so far returned the page of the fixture
StaticPages == \A n \in 1..Len(fetchLog) : fetchLog[n].res # "fail"

\* C1 as stated: in a second (or later) pipeline run over the same feeds, the
\* same pages and the store of the run before, no new hit is produced and no
\* alert is sent.
C1_Idempotence ==
    (InPipelineRun /\ run >= 2 /\ ~runLog[run - 1].force /\ StaticPages)
        => new_hits = <<>> /\ sinkLog = <<>>

\* C1 amended: the same, provided the previous run ended with its fetch count
\* strictly below MAX_LINKS (it was not cut short by the budget); then the
\* later run fetches no page at all.
C1_IdempotenceBelowBudget ==
    (InPipelineRun /\ run >= 2 /\ ~runLog[run - 1].force
       /\ runLog[run - 1].fetched < MAX_LINKS)
        => new_hits = <<>> /\ sinkLog = <<>> /\ ThisRunFetches = <<>>

\* C1 witness: the first run produced hits below the budget, the second run
\* over the same fixtures has finished with none
C1_Witness ==
    /\ pc = "done" /\ ~forceTest /\ run = 2
    /\ ~runLog[1].force /\ runLog[1].nhits >= 1 /\ runLog[1].fetched < MAX_LINKS
    /\ new_hits = <<>>

\* C2 as stated: with more candidates than the budget K, a finished run made at
\* most K fetches and marked seen only keys it fetched.
C2_Budget ==
    (InPipelineRun /\ pc = "done" /\ Cardinality(CandidateKeys) > MAX_LINKS)
        => /\ Len(ThisRunFetches) <= MAX_LINKS
           /\ DOMAIN seen \ DOMAIN seen0 \subseteq FetchedKeys(ThisRunFetches)

\* C2 amended: at every point of a run the number of fetches is at most
\* max(K, 0), and outside the step between already_seen and fetch_text every key
\* the run has inserted into seen is the key of a fetch of this run (for any K,
\* in particular for K below the number of candidates).
C2_BudgetNonNegative ==
    InPipelineRun
        => /\ Len(ThisRunFetches) <= Max(MAX_LINKS, 0)
           /\ fetched_links = Len(ThisRunFetches)
           /\ pc \notin {"t_fetch", "b_fetch"}
                => DOMAIN seen \ DOMAIN seen0 = FetchedKeys(ThisRunFetches)

\* C2 witness: a finished run with more unseen candidates than the budget, the
\* budget used up, and a candidate left unseen
C2_Witness ==
    /\ InPipelineRun /\ pc = "done"
    /\ MAX_LINKS >= 1
    /\ Cardinality(CandidateKeys) > MAX_LINKS
    /\ Len(ThisRunFetches) = MAX_LINKS
    /\ CandidateKeys \ DOMAIN seen # {}

\* C3 as stated: no hit enters new_hits whose id is already in the hits table
\* of the start of the run or already in new_hits, and no hit id is handed to
\* the alert sink twice.
C3_DedupAlerts ==
    InPipelineRun
        => /\ \A i \in 1..Len(new_hits) :
                /\ new_hits[i].id \notin DOMAIN hits0
                /\ \A j \in 1..(i - 1) : new_hits[j].id # new_hits[i].id
           /\ \A i \in 1..Len(sinkLog) : \A j \in 1..(i - 1) : sinkLog[i] # sinkLog[j]

\* C4: no seen key is the key of two fetches, in one run or in different runs.
C4_AtMostOnce ==
    \A i \in 1..Len(fetchLog) : \A j \in 1..(i - 1) : fetchLog[i].key # fetchLog[j].key

\* C4 witness: an item stands twice in one search feed, two runs over it have
\* finished, and it was fetched once
C4_Witness ==
    /\ pc = "done" /\ ~forceTest /\ run = 2 /\ MAX_LINKS >= 2
    /\ Len(searchFeed[P1]) = 2 /\ searchFeed[P1][1] = searchFeed[P1][2]
    /\ Len(fetchLog) = 1

\* C5: after the backstop pass, every general item fetched in this run whose
\* page matched has given one hit per subject named in its title, in new_hits:
\* the subjects are those whose lower-cased name is in the lower-cased title,
\* the hits share url and snippet and differ in person and id, and the page was
\* fetched once.  A title naming two subjects gives two hits.
C5_FanOut ==
    (InPipelineRun /\ pc \in {"emit", "dump", "done"})
        => \A n \in 1..Len(ThisRunFetches) :
             LET e == ThisRunFetches[n]
                 hs == SelectSeq(new_hits, LAMBDA h :
                          h.feed = GeneralFeed /\ h.url = e.url /\ h.title = e.title)
                 named == {p \in Range(people) : Contains(Lower(e.title), Lower(p))}
             IN  (e.pass = "G" /\ e.res = "match")
                   => /\ Len(hs) = Cardinality(named)
                      /\ {hs[i].person : i \in 1..Len(hs)} = named
                      /\ \A i, j \in 1..Len(hs) :
                           /\ hs[i].url = hs[j].url
                           /\ hs[i].snippet = hs[j].snippet
                           /\ hs[i].snippet = Strip(pageText[e.url])
                           /\ i # j => hs[i].person # hs[j].person /\ hs[i].id # hs[j].id
                      /\ Cardinality({m \in 1..Len(fetchLog) : fetchLog[m].key = e.key}) = 1

\* C5 witness: a general item naming both subjects was fetched, matched, and
\* new_hits holds its two hits
C5_Witness ==
    /\ InPipelineRun /\ pc = "done"
    /\ \E n \in 1..Len(ThisRunFetches) :
         /\ ThisRunFetches[n].pass = "G" /\ ThisRunFetches[n].res = "match"
         /\ ThisRunFetches[n].title = TBoth
    /\ Cardinality({i \in 1..Len(new_hits) : new_hits[i].feed = GeneralFeed}) = 2

\* C6 as stated: a key whose fetch failed in an earlier run, which is still a
\* candidate of a finished later run that ended below its budget, was fetched
\* again in that later run.
C6_RetryNextRun ==
    (InPipelineRun /\ pc = "done" /\ fetched_links < MAX_LINKS)
        => \A n \in 1..Len(fetchLog) :
             (fetchLog[n].run < run /\ fetchLog[n].res = "fail"
                /\ fetchLog[n].key \in CandidateKeys)
               => fetchLog[n].key \in FetchedKeys(ThisRunFetches)

\* C7: while the emit loop runs the sink has been given the ids of the hits
\* before ei, in order; once the loop is over it has been given the id of every
\* entry of new_hits, once each and in order, whatever the calls did.
C7_EmitAll ==
    InPipelineRun
        => /\ pc \in {"dump", "done"} =>
                sinkLog = [i \in 1..Len(new_hits) |-> new_hits[i].id]
           /\ pc = "emit" =>
                /\ ei <= Len(new_hits) + 1
                /\ sinkLog = [i \in 1..(ei - 1) |-> new_hits[i].id]
           /\ pc \notin {"emit", "dump", "done"} => sinkLog = <<>>

\* C7 witness: the first send_email of a finished run raised, and a later hit
\* was still handed to the sink
C7_Witness ==
    /\ InPipelineRun /\ pc = "done"
    /\ sinkFail = [at |-> 1, out |-> "raised"]
    /\ Len(new_hits) >= 2
    /\ Len(sinkLog) = Len(new_hits)

NoMatchThisRun == \A n \in 1..Len(ThisRunFetches) : ThisRunFetches[n].res # "match"

\* C8 as stated: a run that has ended and in which no fetched page matched made
\* no send_email call, wrote no JSON file and added no hits row.
C8_SilentOnEmpty ==
    (run >= 1 /\ pc \in {"done", "crashed"} /\ NoMatchThisRun)
        => sinkLog = <<>> /\ run \notin artifacts /\ hits = hits0

\* C8 amended: the same for a run with FORCE_TEST unset, at every point of it.
C8_SilentOnEmptyPipeline ==
    (InPipelineRun /\ NoMatchThisRun)
        => sinkLog = <<>> /\ run \notin artifacts /\ hits = hits0 /\ new_hits = <<>>

\* C8 witness: a finished run fetched two pages, none matched, and it marked
\* keys seen
C8_Witness ==
    /\ InPipelineRun /\ pc = "done"
    /\ Len(ThisRunFetches) >= 2
    /\ NoMatchThisRun
    /\ DOMAIN seen # DOMAIN seen0
    /\ sinkLog = <<>>

(***************************************************************************)
(* The test-alert mode.                                                    *)
(***************************************************************************)
\* C11: a run with FORCE_TEST=1 never stands in the targeted pass, the
\* backstop pass, the emit loop or the dump; it makes no fetch, leaves the
\* seen and hits tables as they were when it started, collects no hit, and
\* hands exactly one alert, the test alert, to send_email before it ends.
C11_TestBypass ==
    (run >= 1 /\ forceTest) =>
        /\ pc \in {"test", "done", "crashed"}
        /\ ThisRunFetches = <<>>
        /\ fetched_links = 0
        /\ seen = seen0
        /\ hits = hits0
        /\ new_hits = <<>>
        /\ sinkLog = IF pc = "test" THEN <<>> ELSE <<TestId>>

\* C11 witness: a test-alert run has ended after an earlier run filled both
\* tables, with candidates still unseen that the pipeline would have fetched
C11_Witness ==
    /\ forceTest
    /\ pc = "done"
    /\ run = 2
    /\ DOMAIN seen # {}
    /\ DOMAIN hits # {}
    /\ MAX_LINKS >= 1
    /\ \E k \in CandidateKeys : k \notin DOMAIN seen

(***************************************************************************)
(* run_once with a failing store: any sqlite3 call of ensure_db,           *)
(* already_seen or record_hit may raise.  Nothing in run_once catches the   *)
(* exception.                                                               *)
(***************************************************************************)
\* mutant: the exception is caught around the passes and the run goes on to
\* mail what it has collected
OnStoreError_Logged(at) == IF at = "start" THEN "done" ELSE "emit"

\* where run_once stands after a store call raised: the exception leaves
\* run_once, whichever call it was
OnStoreError(at) == "aborted"

\* ensure_db raises: nothing of the run has happened yet
EnsureDbFails ==
    /\ pc \in {"idle", "done", "crashed", "aborted", "killed"}
    /\ run < MaxRuns
    /\ ~forceTest
    /\ ~storeErr
    /\ run' = run + 1
    /\ now' = now + 1
    /\ forceTest' \in BOOLEAN
    /\ pc' = OnStoreError("start")
    /\ storeErr' = TRUE
    /\ pi' = 1 /\ ii' = 1 /\ gi' = 1 /\ mi' = 1 /\ ei' = 1
    /\ fetched_links' = 0
    /\ new_hits' = <<>>
    /\ snip' = <<>>
    /\ seen0' = seen
    /\ hits0' = hits
    /\ sinkLog' = <<>>
    /\ sinkFail' = NoFail
    /\ UNCHANGED <<fixtures, store, artifacts, fetchLog, runLog, lastCall, alerted>>

\* already_seen raises, in either pass: before the INSERT was committed, or
\* after it (con.close)
AlreadySeenFails ==
    /\ \/ /\ pc = "targeted"
          /\ pi <= Len(people)
          /\ ii <= Len(curItems)
          /\ ~BudgetReached(fetched_links, MAX_LINKS)
          /\ seen' \in {seen, AlreadySeenTable(seen, TargetedKey(curPerson, curItems[ii]),
                                               now)}
       \/ /\ pc = "backstop"
          /\ gi <= Len(generalFeed)
          /\ ~BudgetReached(fetched_links, MAX_LINKS)
          /\ Mentions(people, generalFeed[gi].title) # <<>>
          /\ seen' \in {seen, AlreadySeenTable(seen, BackstopKey(generalFeed[gi]), now)}
    /\ pc' = OnStoreError(pc)
    /\ storeErr' = TRUE
    /\ UNCHANGED <<fixtures, hits, now, run, forceTest, loopvars, fetched_links,
                   new_hits, snip, artifacts, fetchLog, sinkLog, sinkFail, runLog,
                   seen0, hits0, lastCall, alerted>>

\* record_hit raises, in either pass: the hit is not appended to new_hits
RecordHitFails ==
    /\ \/ /\ pc = "t_record"
          /\ hits' \in {hits, RecordHitTable(hits, MakeHit(curPerson, curItems[ii], snip))}
       \/ /\ pc = "b_record"
          /\ hits' \in {hits, RecordHitTable(hits,
                              MakeHit(Mentions(people, generalFeed[gi].title)[mi],
                                      generalFeed[gi], snip))}
    /\ pc' = OnStoreError(pc)
    /\ storeErr' = TRUE
    /\ UNCHANGED <<fixtures, seen, now, run, forceTest, loopvars, fetched_links,
                   new_hits, snip, artifacts, fetchLog, sinkLog, sinkFail, runLog,
                   seen0, hits0, lastCall, alerted>>

NextFail ==
    \/ Next
    \/ EnsureDbFails
    \/ AlreadySeenFails
    \/ RecordHitFails

FailSpec == Init /\ [][NextFail]_vars

\* C12: once a store operation of a run has raised, the run stands at its
\* abort and has sent no alert, and no step of that run makes an article
\* fetch or hands an alert to send_email, neither the failing step itself
\* nor any step after it.
C12_StoreFailureFatal ==
    /\ [](storeErr => (pc = "aborted" /\ sinkLog = <<>>))
    /\ [][(storeErr' /\ run' = run) => (fetchLog' = fetchLog /\ alerted' = alerted)]_vars

\* C12 witness: a store call raised after the run had collected a hit, with
\* budget left and candidates still unseen
C12_Witness ==
    /\ storeErr
    /\ pc = "aborted"
    /\ new_hits # <<>>
    /\ ~BudgetReached(fetched_links, MAX_LINKS)
    /\ \E k \in CandidateKeys : k \notin DOMAIN seen

(***************************************************************************)
(* fp on its own: called on two tuples of parts drawn from the strings     *)
(* over a letter and the separator.                                        *)
(***************************************************************************)
MaxParts == 2

\* the strings of at most two characters over "a" and "|", the empty one included
FpParts ==
    { <<>>, <<"a">>, <<"|">>, <<"a", "a">>, <<"a", "|">>, <<"|", "a">>, <<"|", "|">> }

FpTuples == UNION {[1..n -> FpParts] : n \in 1..MaxParts}

\* the state in which a pure function is called on its own: no run, empty store
InitPure(at) ==
    /\ people = <<P1, P2>>
    /\ searchFeed = [p \in {P1, P2} |-> <<>>]
    /\ generalFeed = <<>>
    /\ pageText = [u \in Urls |-> TextNoMatch]
    /\ MAX_LINKS = 0
    /\ seen = EmptyTable
    /\ hits = EmptyTable
    /\ now = 0
    /\ run = 0
    /\ forceTest = FALSE
    /\ pc = at
    /\ pi = 1 /\ ii = 1 /\ gi = 1 /\ mi = 1 /\ ei = 1
    /\ fetched_links = 0
    /\ new_hits = <<>>
    /\ snip = <<>>
    /\ artifacts = {}
    /\ fetchLog = <<>>
    /\ sinkLog = <<>>
    /\ sinkFail = NoFail
    /\ runLog = <<>>
    /\ seen0 = EmptyTable
    /\ hits0 = EmptyTable
    /\ lastCall = NoCall
    /\ alerted = {}
    /\ storeErr = FALSE

InitFp == InitPure("fp")

\* fp called on two tuples
FpCall ==
    /\ pc = "fp"
    /\ \E a \in FpTuples, b \in FpTuples :
         lastCall' = [op |-> "fp", a |-> a, b |-> b, fa |-> fp(a), fb |-> fp(b)]
    /\ pc' = "fingerprinted"
    /\ UNCHANGED <<fixtures, store, now, run, forceTest, loopvars, fetched_links,
                   new_hits, snip, artifacts, fetchLog, sinkLog, sinkFail, runLog,
                   seen0, hits0, alerted, storeErr>>

NextFp == FpCall

FpSpec == InitFp /\ [][NextFp]_vars

\* C13 as stated: fp of two tuples of the same length that differ in at least
\* one component feeds different byte strings to the digest, also when
\* components are empty or contain the separator "|".
C13_FpInjective ==
    (lastCall.op = "fp" /\ Len(lastCall.a) = Len(lastCall.b) /\ lastCall.a # lastCall.b)
        => lastCall.fa # lastCall.fb

(***************************************************************************)
(* PHRASE_RE.search on its own: called on texts put together from a        *)
(* prefix, a subject form, "not", an optional article, "racist", a gap,    *)
(* an optional "but" and a suffix.                                         *)
(***************************************************************************)
TextPrefixes == {<<>>, <<"x">>, <<"x", " ">>}

SubjectForms ==
    { <<"I","'","m">>, <<"I","RSQUO","m">>, <<"I"," ","a","m">>, <<"i","'","M">>,
      <<"I"," ","\n","A","M">> }

Articles == {<<>>, <<"a", " ">>}

Gaps ==
    { <<>>, <<" ">>, <<",">>, <<",", " ">>, <<" ", "EMDASH", " ">>, <<";">>, <<":">>,
      <<"-">>, <<" ", "-", " ", "\n">> }

ButForms == {<<>>, <<"b","u","t">>, <<"B","u","T">>}

TextSuffixes == {<<>>, <<" ", "I">>, <<"t">>, <<".">>}

PhraseText(pre, subj, art, gap, but, post) ==
    pre \o subj \o <<" ","n","o","t"," ">> \o art \o <<"r","a","c","i","s","t">>
        \o gap \o but \o post

InitMatch == InitPure("match")

\* one call of PHRASE_RE.search
SearchCall ==
    /\ pc = "match"
    /\ \E pre \in TextPrefixes, subj \in SubjectForms, art \in Articles, gap \in Gaps,
          but \in ButForms, post \in TextSuffixes :
         lastCall' = [op |-> "search", pre |-> pre, subj |-> subj, art |-> art,
                      gap |-> gap, but |-> but, post |-> post,
                      ret |-> PhraseSearch(PhraseText(pre, subj, art, gap, but, post))]
    /\ pc' = "matched"
    /\ UNCHANGED <<fixtures, store, now, run, forceTest, loopvars, fetched_links,
                   new_hits, snip, artifacts, fetchLog, sinkLog, sinkFail, runLog,
                   seen0, hits0, alerted, storeErr>>

NextMatch == SearchCall

MatchSpec == InitMatch /\ [][NextMatch]_vars

\* C14: the search reports a hit exactly for the texts in which "I'm", "I’m"
\* or "I am" (any case), "not racist", an optional run of whitespace and
\* , ; : - — and "but" follow one another, with no word character directly
\* before the "I" or directly after the "but"; a text without "but" and a
\* text with "a racist" give no hit.
C14_MatcherCoverage ==
    lastCall.op = "search" =>
        LET boundaryBefore == lastCall.pre = <<>>
                              \/ ~IsWordChar(lastCall.pre[Len(lastCall.pre)])
            boundaryAfter  == lastCall.post = <<>> \/ ~IsWordChar(lastCall.post[1])
        IN  (lastCall.ret # NoMatch)
              <=> /\ lastCall.art = <<>>
                  /\ lastCall.but # <<>>
                  /\ boundaryBefore
                  /\ boundaryAfter

\* C14 witness: the curly apostrophe and the em dash inside a longer text
C14_Witness ==
    /\ lastCall.op = "search"
    /\ lastCall.pre = <<"x", " ">>
    /\ lastCall.subj = <<"I","RSQUO","m">>
    /\ lastCall.gap = <<" ", "EMDASH", " ">>
    /\ lastCall.post = <<" ", "I">>
    /\ lastCall.ret = <<2, 22>>

(***************************************************************************)
(* Order of the fetches of a run.                                          *)
(***************************************************************************)
RECURSIVE Flatten(_)
Flatten(ss) == IF ss = <<>> THEN <<>> ELSE Head(ss) \o Flatten(Tail(ss))

\* the seen keys of the targeted pass and of the backstop pass in source
\* order: subject by subject in the order of the subject list, item by item
\* in the order of the feed
TargetedOrder ==
    Flatten([n \in 1..Len(people) |->
               [i \in 1..Len(searchFeed[people[n]]) |->
                  TargetedKey(people[n], searchFeed[people[n]][i])]])

BackstopOrder == [i \in 1..Len(generalFeed) |-> BackstopKey(generalFeed[i])]

\* the first position of key k in the sequence s (0 when it is not there)
FirstPos(s, k) ==
    IF \E i \in 1..Len(s) : s[i] = k
    THEN CHOOSE i \in 1..Len(s) : s[i] = k /\ \A j \in 1..(i - 1) : s[j] # k
    ELSE 0

\* C15: in every run, no fetch of the targeted pass comes after a fetch of the
\* backstop pass; the fetches of a pass follow the source order of that pass
\* (subjects in list order, items in feed order); and the backstop pass
\* fetches only when the targeted pass ended with fewer fetches than the budget.
C15_PassOrdering ==
    InPipelineRun =>
        LET log == ThisRunFetches
            nT  == Len(SelectSeq(log, LAMBDA e : e.pass = "T"))
            pos(e) == IF e.pass = "T" THEN FirstPos(TargetedOrder, e.key)
                      ELSE FirstPos(BackstopOrder, e.key)
        IN  /\ \A i \in 1..Len(log) : pos(log[i]) >= 1
            /\ \A i \in 1..Len(log) : \A j \in (i + 1)..Len(log) :
                 /\ ~(log[i].pass = "G" /\ log[j].pass = "T")
                 /\ log[i].pass = log[j].pass => pos(log[i]) < pos(log[j])
            /\ (\E i \in 1..Len(log) : log[i].pass = "G") => nT < MAX_LINKS

\* C15 witness: a finished run fetched for the first subject, then for the
\* second
C15_Witness ==
    /\ InPipelineRun
    /\ pc = "done"
    /\ Len(ThisRunFetches) = 2
    /\ ThisRunFetches[1].pass = "T"
    /\ ThisRunFetches[2].pass = "T"
    /\ FirstPos(TargetedOrder, ThisRunFetches[1].key) = 1
    /\ FirstPos(TargetedOrder, ThisRunFetches[2].key) = 2
    /\ searchFeed[P1] # <<>>
    /\ searchFeed[P2] # <<>>

(***************************************************************************)
(* The fetch counter.                                                      *)
(***************************************************************************)
\* the positions of run_once between two items
AtItemBoundary == pc \in {"targeted", "backstop", "emit", "dump", "done"}

\* C16: with a budget >= 0, at every item boundary of a run fetched_links is
\* the number of seen keys the run has inserted and the number of fetches it
\* has made, and is at most the budget; within a run the counter never
\* decreases, a step that fetches adds exactly 1 whatever the fetch returned,
\* and every other step (the skip of a seen item among them) adds 0.
C16_BudgetAccounting ==
    /\ []((InPipelineRun /\ MAX_LINKS >= 0 /\ AtItemBoundary) =>
            /\ fetched_links = Cardinality(DOMAIN seen \ DOMAIN seen0)
            /\ fetched_links = Len(ThisRunFetches)
            /\ fetched_links <= MAX_LINKS)
    /\ [][(InPipelineRun /\ MAX_LINKS >= 0 /\ run' = run) =>
            /\ fetched_links' >= fetched_links
            /\ fetched_links' = fetched_links + (Len(fetchLog') - Len(fetchLog))]_vars

\* C16 witness: a run that skipped an item seen by the run before and then
\* spent its whole budget on a fetch that failed
C16_Witness ==
    /\ InPipelineRun
    /\ pc = "done"
    /\ run = 2
    /\ MAX_LINKS = 1
    /\ fetched_links = 1
    /\ ThisRunFetches[1].res = "fail"
    /\ CandidateKeys \cap DOMAIN seen0 # {}

(***************************************************************************)
(* run_once killed at any point: the process ends between two steps, the   *)
(* store keeps what was committed, the locals of the run are lost.         *)
(***************************************************************************)
Kill ==
    /\ pc \in {"test", "targeted", "t_fetch", "t_record", "backstop", "b_fetch",
               "b_record", "emit", "dump"}
    /\ pc' = "killed"
    /\ pi' = 1 /\ ii' = 1 /\ gi' = 1 /\ mi' = 1 /\ ei' = 1
    /\ fetched_links' = 0
    /\ new_hits' = <<>>
    /\ snip' = <<>>
    /\ UNCHANGED <<fixtures, store, now, run, forceTest, artifacts, history>>

NextKill ==
    \/ Next
    \/ Kill

KillSpec == Init /\ [][NextKill]_vars

\* the hit ids of the candidates whose page matches the phrase
MatchingHitIds ==
    {fp(<<<<"H">>, p, searchFeed[p][i].url>>) :
        <<p, i>> \in {x \in Range(people) \X (1..MaxItems) :
                        /\ x[2] <= Len(searchFeed[x[1]])
                        /\ PhraseSearch(pageText[searchFeed[x[1]][x[2]].url]) # NoMatch}}
    \cup
    {fp(<<<<"H">>, p, generalFeed[i].url>>) :
        <<p, i>> \in {x \in Range(people) \X (1..MaxItems) :
                        /\ x[2] <= Len(generalFeed)
                        /\ Contains(Lower(generalFeed[x[2]].title), Lower(x[1]))
                        /\ PhraseSearch(pageText[generalFeed[x[2]].url]) # NoMatch}}

\* C17 as stated: whatever runs were killed before, once a run of the
\* pipeline has gone to completion below its budget over the same feeds and
\* pages (no fetch failed), every candidate whose page matches has its hit
\* in the hits table and its hit id has been handed to send_email.
C17_NoMatchLost ==
    (InPipelineRun /\ pc = "done" /\ ~BudgetReached(fetched_links, MAX_LINKS)
       /\ StaticPages)
        => \A id \in MatchingHitIds : id \in DOMAIN hits /\ id \in alerted

(***************************************************************************)
(* Progress over the runs.                                                 *)
(***************************************************************************)
\* C18: with a budget K >= 1, a finished run has fetched min(K, number of
\* candidate keys unseen when it started) pages; after r finished runs
\* max(0, N - r*K) of the N candidate keys are still unseen; every candidate
\* key that is seen has been fetched exactly once over all runs; so once all
\* are seen a run fetches nothing.
C18_Progress ==
    (InPipelineRun /\ pc = "done" /\ MAX_LINKS >= 1) =>
        /\ Len(ThisRunFetches)
             = Min(MAX_LINKS, Cardinality(CandidateKeys \ DOMAIN seen0))
        /\ Cardinality(CandidateKeys \ DOMAIN seen)
             = Max(0, Cardinality(CandidateKeys) - run * MAX_LINKS)
        /\ \A k \in CandidateKeys \cap DOMAIN seen :
             Cardinality({n \in 1..Len(fetchLog) : fetchLog[n].key = k}) = 1

\* C18 witness: two candidates and a budget of 1; the second run has fetched
\* the candidate the first run left over
C18_Witness ==
    /\ InPipelineRun
    /\ pc = "done"
    /\ run = 2
    /\ MAX_LINKS = 1
    /\ Cardinality(CandidateKeys) = 2
    /\ CandidateKeys \subseteq DOMAIN seen
    /\ Len(ThisRunFetches) = 1
    /\ Len(fetchLog) = 2

(***************************************************************************)
(* Where hits come from.                                                   *)
(***************************************************************************)
\* the seen key of the item a hit was built from
HitItemKey(h) == IF h.feed = GeneralFeed THEN BackstopKey(h) ELSE TargetedKey(h.person, h)

\* the item of key k was fetched in run r and the page matched
MatchedIn(k, r) ==
    \E n \in 1..Len(fetchLog) :
        fetchLog[n].key = k /\ fetchLog[n].run = r /\ fetchLog[n].res = "match"

\* C19: every row of the hits table is stored under its id, its id is
\* fp("H", person, url), its person is in the subject list, and the item it
\* was built from was fetched with a matching page in some run; a row that
\* the current run created, and every entry of new_hits, comes from an item
\* that the current run fetched with a matching page.  So an item whose fetch
\* failed or whose page did not match gives no hit row and no new_hits entry.
C19_HitsOnlyOnMatch ==
    /\ \A id \in DOMAIN hits :
         LET h == hits[id]
         IN  /\ h.id = id
             /\ id = fp(<<<<"H">>, h.person, h.url>>)
             /\ h.person \in Range(people)
             /\ \E r \in 1..run : MatchedIn(HitItemKey(h), r)
             /\ id \notin DOMAIN hits0 => MatchedIn(HitItemKey(h), run)
    /\ \A i \in 1..Len(new_hits) :
         /\ MatchedIn(HitItemKey(new_hits[i]), run)
         /\ new_hits[i].id \in DOMAIN hits
         /\ new_hits[i].id = fp(<<<<"H">>, new_hits[i].person, new_hits[i].url>>)

\* C19 witness: a finished run fetched one item whose page matched and one
\* whose fetch failed; only the first gave a hit
C19_Witness ==
    /\ InPipelineRun
    /\ pc = "done"
    /\ Len(ThisRunFetches) = 2
    /\ ThisRunFetches[1].res = "match"
    /\ ThisRunFetches[2].res = "fail"
    /\ ThisRunFetches[1].url = ThisRunFetches[2].url
    /\ Len(new_hits) = 1
    /\ Cardinality(DOMAIN hits) = 1

(***************************************************************************)
(* run_once with the subjects in either order and a budget above the       *)
(* number of items, so that the budget never binds.                        *)
(***************************************************************************)
PeopleOrders == {<<P1, P2>>, <<P2, P1>>}

InitOrder == InitFor(PeopleOrders, {MaxItems + 1})

OrderSpec == InitOrder /\ [][Next]_vars

\* the hit ids of the candidates that are not in the seen table s0 and whose
\* page matches: a set that does not depend on the order of the subject list
NewHitIds(s0) ==
    {fp(<<<<"H">>, p, searchFeed[p][i].url>>) :
        <<p, i>> \in {x \in Range(people) \X (1..MaxItems) :
                        /\ x[2] <= Len(searchFeed[x[1]])
                        /\ TargetedKey(x[1], searchFeed[x[1]][x[2]]) \notin DOMAIN s0
                        /\ PhraseSearch(pageText[searchFeed[x[1]][x[2]].url]) # NoMatch}}
    \cup
    {fp(<<<<"H">>, p, generalFeed[i].url>>) :
        <<p, i>> \in {x \in Range(people) \X (1..MaxItems) :
                        /\ x[2] <= Len(generalFeed)
                        /\ Contains(Lower(generalFeed[x[2]].title), Lower(x[1]))
                        /\ BackstopKey(generalFeed[x[2]]) \notin DOMAIN s0
                        /\ PhraseSearch(pageText[generalFeed[x[2]].url]) # NoMatch}}

\* C20: when a run ends below its budget and none of its fetches failed, the
\* keys of the seen table are those of the starting table and all candidate
\* keys, and the ids of the hits table are those of the starting table and
\* the hit ids of the unseen candidates whose page matches: both sets are
\* given by the fixtures and the starting store alone, whichever order the
\* subject list has.
C20_OrderIndependent ==
    (InPipelineRun /\ pc = "done" /\ ~BudgetReached(fetched_links, MAX_LINKS)
       /\ \A n \in 1..Len(ThisRunFetches) : ThisRunFetches[n].res # "fail")
        => /\ DOMAIN seen = DOMAIN seen0 \cup CandidateKeys
           /\ DOMAIN hits = DOMAIN hits0 \cup NewHitIds(seen0)

\* C20 witness: the subject list in the other order, both subjects with an
\* item of the same url, two hits recorded
C20_Witness ==
    /\ InPipelineRun
    /\ pc = "done"
    /\ people = <<P2, P1>>
    /\ Len(ThisRunFetches) = 2
    /\ ThisRunFetches[1].url = ThisRunFetches[2].url
    /\ DOMAIN hits = {fp(<<<<"H">>, P1, U1>>), fp(<<<<"H">>, P2, U1>>)}
    /\ ~BudgetReached(fetched_links, MAX_LINKS)

====
